---- MODULE Spec2Model ----
(***************************************************************************)
(* Model of pkg/runner/options.go: ParseOptions, the input negotiation     *)
(* between command-line flags and piped standard input.                    *)
(*                                                                         *)
(* A string is a sequence of one-character strings.  A file path flag is   *)
(* either the empty string or one fixed path.  Standard input is a stream  *)
(* written byte by byte by a producer process and closed by it when all    *)
(* bytes are written.                                                      *)
(***************************************************************************)
EXTENDS Integers, Sequences, FiniteSets, TLC

\* ---------------------------------------------------------------- bounds
\* Longest content the producer of stdin writes.
MaxLen == 3

\* ------------------------------------------------------------- alphabet
CR == "\r"
LF == "\n"
SP == " "
Chars == {"a", SP, CR, LF}

RECURSIVE SeqsUpTo(_)
SeqsUpTo(n) ==
  IF n = 0 THEN {<<>>}
  ELSE LET shorter == SeqsUpTo(n - 1)
       IN shorter \cup {Append(s, c) : s \in {t \in shorter : Len(t) = n - 1}, c \in Chars}

\* Values the flags can take on the command line.
DomainArgs == {<<>>, <<"a">>}
ResolverArgs == {"", "resolvers.txt"}
WordlistArgs == {"", "words.txt"}
ListArgs == {"", "subs.txt"}
RawArgs == {"", "massdns.out"}
Paths == {"resolvers.txt", "words.txt", "subs.txt", "massdns.out"}
\* What validateOptions can find on disk: the set of readable paths.
FileSystems == SUBSET Paths

VARIABLES
  argv,      \* the flag values given on the command line
  options,   \* the Options struct under construction
  pc,        \* position of the run inside ParseOptions
  isPipe,    \* standard input is a pipe or a redirected file
  piped,     \* everything the producer writes to stdin before closing it
  written,   \* number of bytes the producer has written so far
  closed,    \* the producer has closed its end of the stream
  consumed,  \* number of bytes the run has read from stdin
  buffer,    \* bytes.Buffer filled by the read of the domain
  exitCode,  \* status passed to os.Exit, -1 while the process runs
  validated, \* validateOptions has been called
  copies     \* number of io.Copy calls on os.Stdin: drain and read

vars == <<argv, options, pc, isPipe, piped, written, closed, consumed,
          buffer, exitCode, validated, copies>>

stream == <<piped, written, closed>>
env == <<argv, isPipe>>

\* --------------------------------------------------------------- Options
\* The fields of Options that ParseOptions reads or writes; a freshly
\* allocated struct holds the zero value of each.
Options ==
  [Domain |-> <<>>, SubdomainsList |-> "", ResolversFile |-> "", Wordlist |-> "",
   MassdnsRaw |-> "", Version |-> FALSE, Stdin |-> FALSE]

\* fileutil.HasStdin: true iff stdin is not a terminal.
HasStdin == isPipe

\* strings.TrimSuffix-like slip: at most one trailing character is dropped.
TrimRightOnce(s, cutset) ==
  IF Len(s) > 0 /\ s[Len(s)] \in cutset THEN SubSeq(s, 1, Len(s) - 1) ELSE s

\* strings.TrimRight(s, cutset): drop trailing characters that are in cutset.
RECURSIVE TrimRight(_, _)
TrimRight(s, cutset) ==
  IF Len(s) > 0 /\ s[Len(s)] \in cutset
  THEN TrimRight(SubSeq(s, 1, Len(s) - 1), cutset)
  ELSE s

\* Line 107: all the flags are provided via cli.
DrainCond(o) ==
  o.Stdin /\ (o.Domain # <<>> /\ o.ResolversFile # "" /\ o.Wordlist # "")

\* Line 114: the domain is provided from stdin.
ReadCond(o) == o.Stdin /\ o.Wordlist # ""

\* ------------------------------------------------------------- Validator
BruteForceMode(o) == o.Domain # <<>> /\ o.Wordlist # "" /\ o.ResolversFile # ""
ListMode(o) == o.SubdomainsList # "" /\ o.ResolversFile # ""
RawMode(o) == o.MassdnsRaw # ""

ModeCount(o) ==
  (IF BruteForceMode(o) THEN 1 ELSE 0) + (IF ListMode(o) THEN 1 ELSE 0)
    + (IF RawMode(o) THEN 1 ELSE 0)

Referenced(o) ==
  {o.ResolversFile, o.Wordlist, o.SubdomainsList, o.MassdnsRaw} \ {""}

\* validateOptions(): "ok" or the class of the error.
validateOptions(o, fs) ==
  IF ModeCount(o) # 1 THEN "input"
  ELSE IF ~(Referenced(o) \subseteq fs) THEN "filesystem"
  ELSE "ok"

\* ------------------------------------------------------------------ Init
Init ==
  /\ argv \in [Domain : DomainArgs, SubdomainsList : ListArgs,
               ResolversFile : ResolverArgs, Wordlist : WordlistArgs,
               MassdnsRaw : RawArgs, Version : BOOLEAN]
  /\ options = Options
  /\ pc = "parse"
  /\ isPipe \in BOOLEAN
  /\ piped \in SeqsUpTo(MaxLen)
  /\ (~isPipe => piped = <<>>)
  /\ written = 0
  /\ closed = FALSE
  /\ consumed = 0
  /\ buffer = <<>>
  /\ exitCode = -1
  /\ validated = FALSE
  /\ copies = [drain |-> 0, read |-> 0]

\* -------------------------------------------------------------- producer
\* The process on the other end of stdin writes one more byte.
ProducerWrite ==
  /\ ~closed
  /\ written < Len(piped)
  /\ written' = written + 1
  /\ UNCHANGED <<argv, options, pc, isPipe, piped, closed, consumed,
                 buffer, exitCode, validated, copies>>

\* The producer has written everything and closes the stream.
ProducerClose ==
  /\ ~closed
  /\ written = Len(piped)
  /\ closed' = TRUE
  /\ UNCHANGED <<argv, options, pc, isPipe, piped, written, consumed,
                 buffer, exitCode, validated, copies>>

\* ---------------------------------------------------------- ParseOptions
\* Lines 42-84: allocate the struct and let flagSet.Parse fill it.
Parse ==
  /\ pc = "parse"
  /\ options' = [Domain |-> argv.Domain, SubdomainsList |-> argv.SubdomainsList,
                 ResolversFile |-> argv.ResolversFile, Wordlist |-> argv.Wordlist,
                 MassdnsRaw |-> argv.MassdnsRaw, Version |-> argv.Version,
                 Stdin |-> Options.Stdin]
  /\ pc' = "probe"
  /\ UNCHANGED <<env, stream, consumed, buffer, exitCode, validated, copies>>

\* Line 87: options.Stdin = fileutil.HasStdin().
DetectStdin ==
  /\ pc = "probe"
  /\ options' = [options EXCEPT !.Stdin = HasStdin]
  /\ pc' = "version"
  /\ UNCHANGED <<env, stream, consumed, buffer, exitCode, validated, copies>>

\* Slip: the version is printed but the process does not exit.
CheckVersion_NoExit ==
  /\ pc = "version"
  /\ pc' = "validate"
  /\ UNCHANGED <<env, options, stream, consumed, buffer, exitCode, validated, copies>>

\* Slip: the validation call is lost and the run goes on to the resolution.
CheckVersion_SkipValidate ==
  /\ pc = "version"
  /\ IF options.Version
     THEN pc' = "exit" /\ exitCode' = 0
     ELSE pc' = "drain_check" /\ UNCHANGED exitCode
  /\ UNCHANGED <<env, options, stream, consumed, buffer, validated, copies>>

\* Lines 95-98: the version flag prints the version and exits with 0.
CheckVersion ==
  /\ pc = "version"
  /\ IF options.Version
     THEN pc' = "exit" /\ exitCode' = 0
     ELSE pc' = "validate" /\ UNCHANGED exitCode
  /\ UNCHANGED <<env, options, stream, consumed, buffer, validated, copies>>

\* Lines 101-104: validate against the files found on disk at that moment;
\* gologger.Fatal exits with 1 on an error.
Validate ==
  /\ pc = "validate"
  /\ validated' = TRUE
  /\ \E files \in FileSystems :
       IF validateOptions(options, files) # "ok"
       THEN pc' = "exit" /\ exitCode' = 1
       ELSE pc' = "drain_check" /\ UNCHANGED exitCode
  /\ UNCHANGED <<env, options, stream, consumed, buffer, copies>>

\* Line 107: enter the drain when all the flags were given.
DrainCheck ==
  /\ pc = "drain_check"
  /\ IF DrainCond(options)
     THEN pc' = "drain" /\ copies' = [copies EXCEPT !.drain = @ + 1]
     ELSE pc' = "read_check" /\ UNCHANGED copies
  /\ UNCHANGED <<env, options, stream, consumed, buffer, exitCode, validated>>

\* Line 109: io.Copy(io.Discard, os.Stdin) reads what is there and drops it.
DrainChunk ==
  /\ pc = "drain"
  /\ consumed < written
  /\ consumed' = written
  /\ UNCHANGED <<env, options, pc, stream, buffer, exitCode, validated, copies>>

\* Slip: the drain stops when no byte is pending instead of at end-of-stream.
DrainEOF_NoWait ==
  /\ pc = "drain"
  /\ consumed = written
  /\ options' = [options EXCEPT !.Stdin = FALSE]
  /\ pc' = "read_check"
  /\ UNCHANGED <<env, stream, consumed, buffer, exitCode, validated, copies>>

\* Slip: the drain leaves options.Stdin set.
DrainEOF_KeepStdin ==
  /\ pc = "drain"
  /\ closed /\ consumed = written
  /\ pc' = "read_check"
  /\ UNCHANGED <<env, options, stream, consumed, buffer, exitCode, validated, copies>>

\* Lines 109-110: io.Copy returns at end-of-stream; Stdin is cleared.
DrainEOF ==
  /\ pc = "drain"
  /\ closed /\ consumed = written
  /\ options' = [options EXCEPT !.Stdin = FALSE]
  /\ pc' = "read_check"
  /\ UNCHANGED <<env, stream, consumed, buffer, exitCode, validated, copies>>

\* Lines 114-115: enter the read of the domain with an empty buffer.
ReadCheck ==
  /\ pc = "read_check"
  /\ IF ReadCond(options)
     THEN /\ pc' = "read"
          /\ buffer' = <<>>
          /\ copies' = [copies EXCEPT !.read = @ + 1]
     ELSE pc' = "returned" /\ UNCHANGED <<buffer, copies>>
  /\ UNCHANGED <<env, options, stream, consumed, exitCode, validated>>

\* Line 116: io.Copy(buffer, os.Stdin) appends what is there to the buffer.
ReadChunk ==
  /\ pc = "read"
  /\ consumed < written
  /\ buffer' = buffer \o SubSeq(piped, consumed + 1, written)
  /\ consumed' = written
  /\ UNCHANGED <<env, options, pc, stream, exitCode, validated, copies>>

\* Slip: the read stops when no byte is pending instead of at end-of-stream.
ReadEOF_NoWait ==
  /\ pc = "read"
  /\ consumed = written
  /\ options' = [options EXCEPT !.Domain = TrimRight(buffer, {CR, LF})]
  /\ pc' = "returned"
  /\ UNCHANGED <<env, stream, consumed, buffer, exitCode, validated, copies>>

\* Lines 116-120: io.Copy returns at end-of-stream; the domain is set.
ReadEOF ==
  /\ pc = "read"
  /\ closed /\ consumed = written
  /\ options' = [options EXCEPT !.Domain = TrimRight(buffer, {CR, LF})]
  /\ pc' = "returned"
  /\ UNCHANGED <<env, stream, consumed, buffer, exitCode, validated, copies>>

Run ==
  \/ Parse
  \/ DetectStdin
  \/ CheckVersion
  \/ Validate
  \/ DrainCheck
  \/ DrainChunk
  \/ DrainEOF
  \/ ReadCheck
  \/ ReadChunk
  \/ ReadEOF

Next ==
  \/ ProducerWrite
  \/ ProducerClose
  \/ Run

Spec == Init /\ [][Next]_vars

\* The run is scheduled whenever it can take a step, and the producer of
\* stdin eventually writes its bytes and closes the stream.
FairSpec ==
  Spec /\ WF_vars(Run) /\ WF_vars(ProducerWrite) /\ WF_vars(ProducerClose)

TypeOK ==
  /\ pc \in {"parse", "probe", "version", "validate", "drain_check", "drain",
             "read_check", "read", "returned", "exit"}
  /\ written \in 0..Len(piped)
  /\ consumed \in 0..written
  /\ exitCode \in {-1, 0, 1}

\* ------------------------------------------------------------ properties
AllFlagsGiven == argv.Domain # <<>> /\ argv.ResolversFile # "" /\ argv.Wordlist # ""
DomainFromStdinCase == argv.Wordlist # "" /\ argv.Domain = <<>>
Terminated == pc \in {"returned", "exit"}
LineEnds == {CR, LF}
Whitespace == {SP, CR, LF}

\* C1: when the domain, resolver and wordlist flags are all given and stdin
\* is detected, ParseOptions returns with Domain equal to the flag value,
\* with every byte of stdin read and dropped up to end-of-stream, and with
\* Stdin false.
C1_FlagsWinStdinDrained ==
  (pc = "returned" /\ AllFlagsGiven /\ isPipe)
    => /\ options.Domain = argv.Domain
       /\ closed /\ written = Len(piped) /\ consumed = Len(piped)
       /\ buffer = <<>>
       /\ ~options.Stdin

C1_Witness ==
  /\ pc = "returned" /\ AllFlagsGiven /\ isPipe
  /\ copies.drain = 1 /\ Len(piped) = MaxLen /\ piped[1] = "a"

C3_DomainIsStrippedStdin ==
  (pc = "returned" /\ DomainFromStdinCase /\ isPipe)
    => \E k \in 0..Len(piped) :
         /\ options.Domain = SubSeq(piped, 1, k)
         /\ k > 0 => piped[k] \notin LineEnds
         /\ \A i \in (k + 1)..Len(piped) : piped[i] \in LineEnds

C3_Witness ==
  /\ pc = "returned" /\ DomainFromStdinCase /\ isPipe
  /\ piped = <<"a", CR, LF>> /\ options.Domain = <<"a">>

\* C4: with the wordlist flag, no domain flag and an empty detected stdin,
\* ParseOptions does not return: the run ends in the validation failure.
C4_EmptyStdinRejected ==
  (DomainFromStdinCase /\ isPipe /\ piped = <<>> /\ ~argv.Version /\ Terminated)
    => (pc = "exit" /\ exitCode = 1)

\* C5: stdin is consumed only when it is detected and either all three flags
\* are given or the wordlist is given without a domain; in every other
\* combination nothing is read and Domain and Stdin keep their values.
C5_StdinUntouchedElsewhere ==
  ~(isPipe /\ (AllFlagsGiven \/ DomainFromStdinCase))
    => /\ consumed = 0 /\ copies.drain = 0 /\ copies.read = 0
       /\ pc \notin {"parse"} => options.Domain = argv.Domain
       /\ pc \notin {"parse", "probe"} => options.Stdin = isPipe

\* C6: stdin is read to end-of-stream at most once per run: the drain and
\* the read of the domain never both happen, and neither happens twice.
C6_SingleRead == copies.drain + copies.read <= 1

C6_Witness ==
  /\ pc = "returned" /\ copies.drain = 1 /\ copies.read = 0
  /\ argv.Wordlist # "" /\ isPipe /\ consumed > 0

C8_VersionExitsFirst ==
  argv.Version
    => /\ ~validated
       /\ consumed = 0 /\ copies.drain = 0 /\ copies.read = 0
       /\ options.Domain \in {<<>>, argv.Domain}
       /\ pc \in {"parse", "probe", "version", "exit"}
       /\ pc = "exit" => exitCode = 0

C8_Witness ==
  /\ argv.Version /\ pc = "exit" /\ exitCode = 0
  /\ isPipe /\ written > 0 /\ argv.Wordlist # ""

\* C9: a Domain read from stdin that holds nothing but whitespace and line
\* terminators is resolved as the empty Domain.
C9_WhitespaceIsAbsent ==
  (pc = "returned" /\ copies.read = 1 /\ \A i \in 1..Len(piped) : piped[i] \in Whitespace)
    => options.Domain = <<>>

\* C10: if the producer of stdin eventually closes the stream, every run
\* terminates, by an exit or by returning; and the drain and the read of the
\* domain are left only at end-of-stream, never while the stream is open.
C10_TerminatesAtEOF ==
  /\ <>Terminated
  /\ [][(pc \in {"drain", "read"} /\ pc' # pc) => (closed /\ consumed = written)]_vars

C10_Witness ==
  /\ pc = "returned" /\ isPipe /\ closed
  /\ copies.read = 1 /\ consumed = MaxLen

====
